---- MODULE Spec2Model ----
(***************************************************************************)
(* sqltest: a runner that executes SQL scripts against throw-away          *)
(* PostgreSQL databases and compares the client's output with golden       *)
(* files.  The model follows cmd/sqltest (the revision with --approve and  *)
(* --run): main, LoadTestcases, filter/match, Tester.Run, runSetup,        *)
(* runTeardown, runExternal, Tester.exec, approved, runDiff,               *)
(* ensureFileExists, updateDatabaseURI and copyFile.                       *)
(*                                                                         *)
(* Strings are sequences of tokens (a name such as "a", the suffix ".sql", *)
(* a regular-expression atom).  File contents are sequences of chunks.     *)
(* The database server, the file system, the external commands and the     *)
(* wall clock are the environment: their outcomes are nondeterministic.    *)
(***************************************************************************)
EXTENDS Naturals, Sequences, FiniteSets

\* ---------------------------------------------------------------- bounds

\* The wall clock runs from tick 0 to tick MaxClock.
MaxClock == 2

\* The SQL client prints at most MaxChunks chunks on its standard output.
MaxChunks == 2

\* The number of times the program is started against the same directories
\* and the same database server.
MaxLifetimes == 2

\* Clock ticks per wall-clock second: the layout "20060102150405" of
\* time.Format has no field below the second.
TicksPerSecond == 2

\* ------------------------------------------------------------ the inputs

None == "none"

Sql == ".sql"

\* The entries os.ReadDir returns for <in>, sorted by filename.
DirIn ==
    << [name |-> <<"a", Sql>>, isDir |-> FALSE],
       [name |-> <<"b", Sql>>, isDir |-> FALSE],
       [name |-> <<"c">>, isDir |-> TRUE] >>

Filenames == { DirIn[i].name : i \in { j \in 1..Len(DirIn) : ~DirIn[j].isDir } }

\* The values of --run ("." is the default), --approve ("" is the default)
\* and --db.  "(" is not a regular expression.  "uri" is a connection URI;
\* "dsn" is a keyword/value connection string pgx.ParseConfig accepts and
\* url.Parse rejects (a colon in its first path segment); "bad" is rejected
\* by pgx.ParseConfig.
RunValues == { <<".">>, <<"a">>, <<"(">> }
ApproveValues == { <<>>, <<"a">>, <<"(">> }
DatabaseURIValues == { "uri", "dsn", "bad" }

Output(k) == [i \in 1..k |-> i]
ClientOutputs == { Output(k) : k \in 0..MaxChunks }

\* ------------------------------------------------------- pure functions

IsPrefix(s, t) == Len(s) <= Len(t) /\ SubSeq(t, 1, Len(s)) = s

\* strings.TrimSuffix(s, suffix)
TrimSuffix(s, suffix) ==
    IF Len(suffix) <= Len(s)
        /\ SubSeq(s, Len(s) - Len(suffix) + 1, Len(s)) = suffix
    THEN SubSeq(s, 1, Len(s) - Len(suffix))
    ELSE s

\* regexp.MustCompile panics on a pattern that does not compile.
Compiles(pattern) == \A i \in 1..Len(pattern) : pattern[i] # "("

\* Regexp.MatchString: an unanchored search; "." matches any one token, any
\* other atom matches itself.
MatchString(pattern, value) ==
    \E start \in 0..(Len(value) - Len(pattern)) :
        \A i \in 1..Len(pattern) :
            pattern[i] = "." \/ pattern[i] = value[start + i]

match(value, pattern) == MatchString(pattern, value)

RECURSIVE LoadFrom(_, _)
LoadFrom(entries, i) ==
    IF i > Len(entries) THEN <<>>
    ELSE IF entries[i].isDir THEN LoadFrom(entries, i + 1)
    ELSE << [Name |-> TrimSuffix(entries[i].name, <<Sql>>),
             Filename |-> entries[i].name] >> \o LoadFrom(entries, i + 1)

LoadTestcases(entries) == LoadFrom(entries, 1)

RECURSIVE filterFrom(_, _, _)
filterFrom(values, pattern, i) ==
    IF i > Len(values) THEN <<>>
    ELSE IF match(values[i].Name, pattern)
         THEN <<values[i]>> \o filterFrom(values, pattern, i + 1)
         ELSE filterFrom(values, pattern, i + 1)

filter(values, pattern) == filterFrom(values, pattern, 1)

\* "sqltest_" + time.Now().Format("20060102150405"): the instant cut to its
\* second.
DbName(now) == <<"sqltest_", now \div TicksPerSecond>>

\* url.Parse in updateDatabaseURI
URIParses(uri) == uri = "uri"

\* os.MkdirTemp(os.TempDir(), "sqltest_" + timestamp): each process gets a
\* directory of a name of its own (the pattern and a random suffix); run, the
\* number of the process, stands for that name.
OutputDirectory(run) == <<"sqltest_", run>>

\* filepath.Join(tester.dirOut, tester.testcase.Filename)
ActualPath(run, filename) == <<OutputDirectory(run), filename>>

\* diff -u expected actual, as runDiff reads it: the diff text is empty when
\* the files agree; the text of a difference is the header, which names the
\* two files (paths: the expected one and the actual one), and the hunks,
\* here the pair of contents.
DiffText(expected, got, paths) ==
    IF expected = got THEN <<>> ELSE <<paths, expected, got>>

\* A file: whether it exists, and its content.
NoFile == [exists |-> FALSE, data |-> <<>>]
File(content) == [exists |-> TRUE, data |-> content]

\* ----------------------------------------------------------------- state

VARIABLES
    args,         \* Arguments: the command line of the running process
    pc,           \* where the main goroutine is
    testcases,    \* main's testcases, after filter
    idx,          \* the position of the range loop in testcases (1-based)
    failed,       \* main's failed
    exitStatus,   \* the exit status, once pc = "exited"
    lifetime,     \* how many times the program has been started
    clock,        \* the wall clock, in ticks
    dbs,          \* the databases that exist on the server
    expectedDir,  \* the files of <expected>, by filename
    dirOut,       \* the temporary output directory: none, present, removed
    actual,       \* the output directory's file of the test case in progress
    clientOut,    \* what the SQL client prints for each script, once it has run
    tester,       \* Tester.testcase: the Testcase and dbConfig.Database
    dbname,       \* Run's dbname
    runErr,       \* the error Run returns (None: nil)
    panicking,    \* a panic is unwinding the main goroutine
    child,        \* the SQL client process: none, running, exit0, exit1
    toWrite,      \* what the SQL client has still to print
    pipe,         \* the stdout pipe: printed and not yet read
    inflight,     \* read by io.Copy(out, stdout) and not yet written to out
    outOpen,      \* exec's out (the actual file) is open
    events,       \* what Run has done for the current test case, in order
    names,        \* the test cases Run was called for in this lifetime, in
                  \* order, each with the database name Run generated
    lines,        \* the PASS/FAIL lines printed in this lifetime, in order
    approvedIn,   \* filenames approved (exec returned nil) in an earlier lifetime
    diff,         \* the diff text in the error exec returned (<<>>: none)
    previous      \* the lines printed by the process before this one, where
                  \* the program is started again with the same command line

procVars == <<args, pc, testcases, idx, failed, exitStatus, lifetime>>
envVars == <<clock, dbs, expectedDir, dirOut, actual, clientOut>>
runVars == <<tester, dbname, runErr, panicking>>
cmdVars == <<child, toWrite, pipe, inflight, outOpen>>
logVars == <<events, names, lines, approvedIn, diff, previous>>
vars == <<procVars, envVars, runVars, cmdVars, logVars>>

ArgumentsSet ==
    [ValueSetup : BOOLEAN, ValueTeardown : BOOLEAN, FlagDoNotRemove : BOOLEAN,
     ValueApprove : ApproveValues, ValueRun : RunValues,
     ValueDatabaseURI : DatabaseURIValues]

NoTestcase == [Name |-> <<>>, Filename |-> <<>>]

Init ==
    /\ args \in ArgumentsSet
    /\ pc = "start"
    /\ testcases = <<>>
    /\ idx = 1
    /\ failed = 0
    /\ exitStatus = 0
    /\ lifetime = 1
    /\ clock = 0
    /\ dbs = {}
    /\ expectedDir \in [Filenames -> { NoFile, File(Output(1)) }]
    /\ dirOut = "none"
    /\ actual = NoFile
    /\ clientOut = [f \in Filenames |-> NoFile]
    /\ tester = [testcase |-> NoTestcase, Database |-> <<>>]
    /\ dbname = <<>>
    /\ runErr = None
    /\ panicking = FALSE
    /\ child = "none"
    /\ toWrite = <<>>
    /\ pipe = <<>>
    /\ inflight = <<>>
    /\ outOpen = FALSE
    /\ events = <<>>
    /\ names = <<>>
    /\ lines = <<>>
    /\ approvedIn = {}
    /\ diff = <<>>
    /\ previous = <<>>

Event(op, db, ok) == [op |-> op, db |-> db, ok |-> ok, tc |-> tester.testcase]

\* ------------------------------------------------------------------ main

\* main up to the range loop: pgx.ParseConfig, pgx.ConnectConfig,
\* LoadTestcases, filter (match panics on a --run that does not compile, at
\* the first test case it is asked about), os.MkdirTemp.  Each failure panics.
Preflight ==
    /\ pc = "start"
    /\ \E env \in { "ok", "connect", "readdir", "mkdirtemp" } :
        LET loaded == LoadTestcases(DirIn)
            panics == \/ args.ValueDatabaseURI = "bad"
                      \/ env # "ok"
                      \/ Len(loaded) > 0 /\ ~Compiles(args.ValueRun)
        IN  IF panics
            THEN /\ pc' = "exited"
                 /\ exitStatus' = 2
                 /\ UNCHANGED <<testcases, dirOut>>
            ELSE /\ pc' = "loop"
                 /\ testcases' = filter(loaded, args.ValueRun)
                 /\ dirOut' = "present"
                 /\ UNCHANGED exitStatus
    /\ idx' = 1
    /\ failed' = 0
    /\ UNCHANGED <<args, lifetime, clock, dbs, expectedDir, actual, clientOut>>
    /\ UNCHANGED <<runVars, cmdVars, logVars>>

\* Time passes.  The program reads the clock for its state only in Run
\* (dbname), so the clock is advanced where Run is about to read it.
Tick ==
    /\ pc = "loop"
    /\ clock < MaxClock
    /\ clock' = clock + 1
    /\ UNCHANGED <<procVars, dbs, expectedDir, dirOut, actual, clientOut>>
    /\ UNCHANGED <<runVars, cmdVars, logVars>>

\* ------------------------------------------------------------ Tester.Run

\* CREATE DATABASE fails when a database of that name exists, and when the
\* server refuses it (privilege, connection).  In RunCreate serverOK is the
\* server's answer for a name that does not exist.
CreateFails(name, existing, serverOK) == name \in existing \/ ~serverOK

\* A Run that registers the deferred drop before it looks at the error of
\* CREATE DATABASE.
AfterCreate_DeferFirst(err) == IF err THEN "drop" ELSE "setup"

\* Run returns at once when CREATE DATABASE failed: the deferred drop is
\* registered only after it.
AfterCreate(err) == IF err THEN "report" ELSE "setup"

\* A Run that drops the database at the end of its body, not in a deferred
\* function: the return on a setup error skips the drop.
AfterSetup_NoDefer(err) == IF err THEN "report" ELSE "exec"

\* A Run that ignores the error of runSetup.
AfterSetup_Continue(err) == "exec"

\* Run returns (through the deferred drop) when the setup command failed.
AfterSetup(err) == IF err THEN "drop" ELSE "exec"

\* Run returns (through the deferred drop) when exec failed.
AfterExec(err) == IF err THEN "drop" ELSE "teardown"

\* A deferred function that returns the error of DROP DATABASE through a
\* named result.
ResultAfterDrop_Propagate(err, dropOK) == IF dropOK THEN err ELSE "drop database"

\* The error Run returns is the one its body returned: the deferred function
\* logs the error of DROP DATABASE and drops it.
ResultAfterDrop(err, dropOK) == err

\* Run, to the deferred function's registration: dbname, CREATE DATABASE.
RunCreate ==
    /\ pc = "loop"
    /\ idx <= Len(testcases)
    /\ \E serverOK \in BOOLEAN :
        LET tc == testcases[idx]
            name == DbName(clock)
            err == CreateFails(name, dbs, serverOK)
        IN  /\ name \in dbs => serverOK
            /\ tester' = [testcase |-> tc,
                          Database |-> IF err THEN <<>> ELSE name]
            /\ dbname' = name
            /\ dbs' = IF err THEN dbs ELSE dbs \cup {name}
            /\ runErr' = IF err THEN "create database" ELSE None
            /\ events' = << [op |-> "create", db |-> name, ok |-> ~err, tc |-> tc] >>
            /\ names' = Append(names, [name |-> tc.Name, db |-> name])
            /\ pc' = AfterCreate(err)
    /\ UNCHANGED <<args, testcases, idx, failed, exitStatus, lifetime>>
    /\ UNCHANGED <<clock, expectedDir, dirOut, actual, clientOut>>
    /\ UNCHANGED <<panicking, cmdVars, lines, approvedIn, diff, previous>>

\* A runExternal that gives the command the database of the server
\* connection (tester.dbConfig) and not the one of the test case.
RunExternal_ServerDatabase(op, errText, onOK, onErr) ==
    IF ~URIParses(args.ValueDatabaseURI)
    THEN /\ panicking' = TRUE
         /\ pc' = "drop"
         /\ UNCHANGED <<runErr, events>>
    ELSE \E ok \in BOOLEAN :
         /\ events' = Append(events, Event(op, <<"postgres">>, ok))
         /\ runErr' = IF ok THEN None ELSE errText
         /\ pc' = IF ok THEN onOK ELSE onErr
         /\ UNCHANGED panicking

\* runExternal: the environment is built first (updateDatabaseURI panics on a
\* connection string url.Parse rejects), then the command runs.  onOK, onErr:
\* where the caller goes on a nil and on a non-nil error.
RunExternal(op, errText, onOK, onErr) ==
    IF ~URIParses(args.ValueDatabaseURI)
    THEN /\ panicking' = TRUE
         /\ pc' = "drop"
         /\ UNCHANGED <<runErr, events>>
    ELSE \E ok \in BOOLEAN :
         /\ events' = Append(events, Event(op, tester.Database, ok))
         /\ runErr' = IF ok THEN None ELSE errText
         /\ pc' = IF ok THEN onOK ELSE onErr
         /\ UNCHANGED panicking

AfterTeardown(err) == "drop"

\* runSetup
RunSetup ==
    /\ pc = "setup"
    /\ IF ~args.ValueSetup
       THEN /\ pc' = AfterSetup(FALSE)
            /\ UNCHANGED <<runErr, events, panicking>>
       ELSE RunExternal("setup", "run setup", AfterSetup(FALSE), AfterSetup(TRUE))
    /\ UNCHANGED <<args, testcases, idx, failed, exitStatus, lifetime>>
    /\ UNCHANGED <<envVars, tester, dbname, cmdVars, names, lines, approvedIn, diff, previous>>

\* runTeardown
RunTeardown ==
    /\ pc = "teardown"
    /\ IF ~args.ValueTeardown
       THEN /\ pc' = AfterTeardown(FALSE)
            /\ UNCHANGED <<runErr, events, panicking>>
       ELSE RunExternal("teardown", "run test",
                        AfterTeardown(FALSE), AfterTeardown(TRUE))
    /\ UNCHANGED <<args, testcases, idx, failed, exitStatus, lifetime>>
    /\ UNCHANGED <<envVars, tester, dbname, cmdVars, names, lines, approvedIn, diff, previous>>

\* Run's deferred function: DROP DATABASE; its error is logged.  When a panic
\* is unwinding, main's deferred functions run next (os.RemoveAll of the
\* output directory) and the process dies with status 2.
RunDrop ==
    /\ pc = "drop"
    /\ \E dropOK \in BOOLEAN :
        /\ dbs' = IF dropOK THEN dbs \ {dbname} ELSE dbs
        /\ events' = Append(events, Event("drop", dbname, dropOK))
        /\ runErr' = ResultAfterDrop(runErr, dropOK)
    /\ IF panicking
       THEN /\ pc' = "exited"
            /\ exitStatus' = 2
            /\ dirOut' = "removed"
            /\ actual' = NoFile
       ELSE /\ pc' = "report"
            /\ UNCHANGED <<exitStatus, dirOut, actual>>
    /\ UNCHANGED <<args, testcases, idx, failed, lifetime>>
    /\ UNCHANGED <<clock, expectedDir, clientOut>>
    /\ UNCHANGED <<tester, dbname, panicking, cmdVars, names, lines, approvedIn, diff, previous>>

\* ----------------------------------------------------------- Tester.exec

Current == tester.testcase.Filename

\* An ensureFileExists that calls os.Create without looking: a file that was
\* there is truncated.
EnsureFileExists_CreateAlways(file, fsOK) ==
    IF ~fsOK THEN [err |-> TRUE, file |-> file]
    ELSE [err |-> FALSE, file |-> File(<<>>)]

\* An ensureFileExists that only reports what os.Stat says.
EnsureFileExists_StatOnly(file, fsOK) == [err |-> ~fsOK, file |-> file]

\* ensureFileExists: os.Stat, and os.Create when the file does not exist.
\* fsOK: the file system lets the call through.
EnsureFileExists(file, fsOK) ==
    IF ~fsOK THEN [err |-> TRUE, file |-> file]
    ELSE IF file.exists THEN [err |-> FALSE, file |-> file]
    ELSE [err |-> FALSE, file |-> File(<<>>)]

\* approved: no --approve, no approval; regexp.MustCompile is called otherwise.
ApprovedPanics(approve) == approve # <<>> /\ ~Compiles(approve)
approved(approve, name) == approve # <<>> /\ MatchString(approve, name)

\* A copyFile that opens dst for appending: what dst held stays in front.
copyFile_Append(src, dst, how, cut) ==
    IF how \in { "open", "create" }
    THEN [err |-> TRUE, file |-> dst]
    ELSE [err |-> how # "ok", file |-> File(dst.data \o src.data)]

\* copyFile(src, dst): os.Open, os.Create (which truncates dst), io.Copy,
\* Sync.  how: the step that fails ("ok": none); cut: how much io.Copy had
\* written when it failed.
copyFile(src, dst, how, cut) ==
    CASE how = "open" -> [err |-> TRUE, file |-> dst]
      [] how = "create" -> [err |-> TRUE, file |-> dst]
      [] how = "copy" -> [err |-> TRUE, file |-> File(SubSeq(src.data, 1, cut))]
      [] how = "sync" -> [err |-> TRUE, file |-> File(src.data)]
      [] OTHER -> [err |-> FALSE, file |-> File(src.data)]

\* runDiff: diff exits 0 on equal files, 1 with the differences on stdout;
\* an error without stdout (diff could not run) is an error of runDiff.
runDiff(expected, got, paths, diffWorks) ==
    IF ~diffWorks
    THEN [err |-> TRUE, diff |-> <<>>]
    ELSE [err |-> FALSE, diff |-> DiffText(expected.data, got.data, paths)]

\* exec returns: the deferred out.Close(); the copier's next write fails.
ExecReturn ==
    /\ outOpen' = FALSE
    /\ inflight' = <<>>

\* exec, to cmd.Run: the client's arguments (updateDatabaseURI), os.Create of
\* the actual file, the pipes, the two copying goroutines.
ExecStart ==
    /\ pc = "exec"
    /\ IF ~URIParses(args.ValueDatabaseURI)
       THEN /\ panicking' = TRUE
            /\ pc' = "drop"
            /\ UNCHANGED <<actual, clientOut, runErr, cmdVars, events>>
       ELSE \E how \in { "ok", "create", "pipe" }, out \in ClientOutputs :
            /\ clientOut[Current].exists => out = clientOut[Current].data
            /\ how # "ok" => out = <<>> \/ clientOut[Current].exists
            /\ UNCHANGED panicking
            /\ actual' = IF how = "create" THEN actual ELSE File(<<>>)
            /\ clientOut' = IF how = "ok"
                            THEN [clientOut EXCEPT ![Current] = File(out)]
                            ELSE clientOut
            /\ runErr' = CASE how = "create" -> "create actual file"
                           [] how = "pipe" -> "get stdout pipe"
                           [] OTHER -> None
            /\ pc' = IF how = "ok" THEN "cmdrun" ELSE AfterExec(TRUE)
            /\ outOpen' = (how = "ok")
            /\ child' = IF how = "ok" THEN "running" ELSE "none"
            /\ toWrite' = IF how = "ok" THEN out ELSE <<>>
            /\ pipe' = <<>>
            /\ inflight' = <<>>
            /\ events' = IF how = "ok"
                         THEN Append(events, Event("client", tester.Database, TRUE))
                         ELSE events
    /\ UNCHANGED <<args, testcases, idx, failed, exitStatus, lifetime>>
    /\ UNCHANGED <<clock, dbs, expectedDir, dirOut>>
    /\ UNCHANGED <<tester, dbname, names, lines, approvedIn, diff, previous>>

\* The SQL client prints its next chunk.
ChildWrite ==
    /\ child = "running"
    /\ toWrite # <<>>
    /\ pipe' = Append(pipe, Head(toWrite))
    /\ toWrite' = Tail(toWrite)
    /\ UNCHANGED <<procVars, envVars, runVars, child, inflight, outOpen, logVars>>

\* The SQL client exits: with status 0 after its whole output, with another
\* status at any point (ON_ERROR_STOP=1; or it could not be started).
ChildExit ==
    /\ child = "running"
    /\ \E status \in { "exit0", "exit1" } :
        /\ status = "exit0" => toWrite = <<>>
        /\ child' = status
    /\ UNCHANGED <<procVars, envVars, runVars, toWrite, pipe, inflight, outOpen, logVars>>

\* go io.Copy(out, stdout): a read of the pipe.
CopyRead ==
    /\ pipe # <<>>
    /\ inflight = <<>>
    /\ inflight' = <<Head(pipe)>>
    /\ pipe' = Tail(pipe)
    /\ UNCHANGED <<procVars, envVars, runVars, child, toWrite, outOpen, logVars>>

\* go io.Copy(out, stdout): the write to the actual file of what was read.
CopyWrite ==
    /\ inflight # <<>>
    /\ outOpen
    /\ actual' = File(actual.data \o inflight)
    /\ inflight' = <<>>
    /\ UNCHANGED <<procVars, clock, dbs, expectedDir, dirOut, clientOut>>
    /\ UNCHANGED <<runVars, child, toWrite, pipe, outOpen, logVars>>

\* What Wait leaves in the pipe for the copier when it closes the read end:
\* nothing.
PipeAfterWait(unread) == <<>>

\* cmd.Run returns: Wait has seen the client exit and has closed the read end
\* of the stdout pipe.
CmdWait ==
    /\ pc = "cmdrun"
    /\ child \in { "exit0", "exit1" }
    /\ pipe' = PipeAfterWait(pipe)
    /\ child' = "none"
    /\ toWrite' = <<>>
    /\ events' = Append(events, Event("exit", tester.Database, child = "exit0"))
    /\ IF child = "exit1"
       THEN /\ runErr' = "exec"
            /\ pc' = AfterExec(TRUE)
            /\ ExecReturn
       ELSE /\ pc' = "sync"
            /\ UNCHANGED <<runErr, inflight, outOpen>>
    /\ UNCHANGED <<args, testcases, idx, failed, exitStatus, lifetime>>
    /\ UNCHANGED <<envVars, tester, dbname, panicking, names, lines, approvedIn, diff, previous>>

\* exec: out.Sync and ensureFileExists(expected).  The event tells what
\* ensureFileExists found: "stat expected" for a file that was there,
\* "create expected" for one that was not.
ExecEnsure ==
    /\ pc = "sync"
    /\ \E how \in { "ok", "sync", "ensure" } :
        LET r == EnsureFileExists(expectedDir[Current], how = "ok")
        IN  IF how = "sync"
            THEN /\ runErr' = "sync actual file"
                 /\ pc' = AfterExec(TRUE)
                 /\ ExecReturn
                 /\ UNCHANGED <<expectedDir, events>>
            ELSE /\ expectedDir' = [expectedDir EXCEPT ![Current] = r.file]
                 /\ events' = Append(events,
                        Event(IF expectedDir[Current].exists
                              THEN "stat expected" ELSE "create expected",
                              dbname, ~r.err))
                 /\ runErr' = IF r.err THEN "ensure expected file exists" ELSE None
                 /\ pc' = IF r.err THEN AfterExec(TRUE) ELSE "compare"
                 /\ IF r.err THEN ExecReturn ELSE UNCHANGED <<inflight, outOpen>>
    /\ UNCHANGED <<args, testcases, idx, failed, exitStatus, lifetime>>
    /\ UNCHANGED <<clock, dbs, dirOut, actual, clientOut>>
    /\ UNCHANGED <<tester, dbname, panicking, child, toWrite, pipe>>
    /\ UNCHANGED <<names, lines, approvedIn, diff, previous>>

\* exec: approval (copyFile) or comparison (runDiff), and the return.  late:
\* the copier's write of what it had read lands after the actual file was
\* read and before out is closed.
ExecCompare ==
    /\ pc = "compare"
    /\ LET expected == expectedDir[Current]
       IN  IF ApprovedPanics(args.ValueApprove)
           THEN /\ panicking' = TRUE
                /\ pc' = "drop"
                /\ UNCHANGED <<expectedDir, actual, runErr, events, diff>>
           ELSE /\ UNCHANGED panicking
                /\ \E late \in BOOLEAN :
                    /\ late => inflight # <<>>
                    /\ actual' = IF late THEN File(actual.data \o inflight) ELSE actual
                /\ IF approved(args.ValueApprove, tester.testcase.Name)
                   THEN \E how \in { "ok", "open", "create", "copy", "sync" } :
                        \E cut \in 0..Len(actual.data) :
                        LET r == copyFile(actual, expected, how, cut)
                        IN  /\ how # "copy" => cut = 0
                            /\ expectedDir' = [expectedDir EXCEPT ![Current] = r.file]
                            /\ runErr' = IF r.err THEN "copy actual to expected" ELSE None
                            /\ events' = Append(events, Event("approve", dbname, ~r.err))
                            /\ UNCHANGED diff
                            /\ pc' = AfterExec(r.err)
                   ELSE \E diffWorks \in BOOLEAN :
                        LET paths == <<Current, ActualPath(lifetime, Current)>>
                            r == runDiff(expected, actual, paths, diffWorks)
                        IN  /\ diff' = r.diff
                            /\ runErr' = IF r.err THEN "diff command failed"
                                         ELSE IF Len(r.diff) > 0 THEN "diff is not empty"
                                         ELSE None
                            /\ events' = Append(events, Event("diff", dbname, ~r.err))
                            /\ pc' = AfterExec(r.err \/ Len(r.diff) > 0)
                            /\ UNCHANGED expectedDir
    /\ ExecReturn
    /\ UNCHANGED <<args, testcases, idx, failed, exitStatus, lifetime>>
    /\ UNCHANGED <<clock, dbs, dirOut, clientOut>>
    /\ UNCHANGED <<tester, dbname, child, toWrite, pipe, names, lines, approvedIn, previous>>

\* ------------------------------------------------- main: the loop's rest

\* The exit status of main after the loop: log.Fatalf (os.Exit(1)) when a
\* test case failed, a return from main otherwise.
ExitStatus(nfailed) == IF nfailed > 0 THEN 1 ELSE 0

\* A main that prints PASS for a test case whose only error is the teardown
\* command's.
Verdict_IgnoreTeardown(err) ==
    IF err \notin { None, "run test" } THEN "FAIL" ELSE "PASS"

\* The line main prints for the error Run returned.
Verdict(err) == IF err # None THEN "FAIL" ELSE "PASS"

\* The body of the range loop after tester.Run returned: one FAIL or PASS
\* line, and the tally.  The next iteration has a new Tester, and its actual
\* file does not exist yet.
Report ==
    /\ pc = "report"
    /\ lines' = Append(lines,
                       [name |-> testcases[idx].Name,
                        filename |-> testcases[idx].Filename,
                        verdict |-> Verdict(runErr),
                        diff |-> diff,
                        approved |-> \E i \in 1..Len(events) :
                                        events[i].op = "approve" /\ events[i].ok])
    /\ failed' = IF Verdict(runErr) = "FAIL" THEN failed + 1 ELSE failed
    /\ idx' = idx + 1
    /\ pc' = "loop"
    /\ tester' = [testcase |-> NoTestcase, Database |-> <<>>]
    /\ dbname' = <<>>
    /\ runErr' = None
    /\ events' = <<>>
    /\ diff' = <<>>
    /\ actual' = NoFile
    /\ UNCHANGED <<args, testcases, exitStatus, lifetime>>
    /\ UNCHANGED <<clock, dbs, expectedDir, dirOut, clientOut>>
    /\ UNCHANGED <<panicking, cmdVars, names, approvedIn, previous>>

\* main after the loop.  os.Exit runs no deferred function: the output
\* directory stays when a test case failed; it is removed otherwise.
Summary ==
    /\ pc = "loop"
    /\ idx > Len(testcases)
    /\ pc' = "exited"
    /\ exitStatus' = ExitStatus(failed)
    /\ IF failed > 0
       THEN UNCHANGED <<dirOut, actual>>
       ELSE /\ dirOut' = "removed"
            /\ actual' = NoFile
    /\ UNCHANGED <<args, testcases, idx, failed, lifetime>>
    /\ UNCHANGED <<clock, dbs, expectedDir, clientOut>>
    /\ UNCHANGED <<runVars, cmdVars, logVars>>

\* The program is started again, on the same directories and the same
\* server, with --approve approve; kept: what is remembered of the lines the
\* process before printed.
StartAgain(approve, kept) ==
    /\ pc = "exited"
    /\ lifetime < MaxLifetimes
    /\ lifetime' = lifetime + 1
    /\ args' = [args EXCEPT !.ValueApprove = approve]
    /\ previous' = kept
    /\ pc' = "start"
    /\ testcases' = <<>>
    /\ idx' = 1
    /\ failed' = 0
    /\ exitStatus' = 0
    /\ dirOut' = "none"
    /\ actual' = NoFile
    /\ tester' = [testcase |-> NoTestcase, Database |-> <<>>]
    /\ dbname' = <<>>
    /\ runErr' = None
    /\ panicking' = FALSE
    /\ events' = <<>>
    /\ names' = <<>>
    /\ lines' = <<>>
    /\ approvedIn' = { lines[i].filename :
                         i \in { j \in 1..Len(lines) : lines[j].approved } }
    /\ UNCHANGED <<clock, dbs, expectedDir, clientOut, cmdVars, diff>>

\* The program is started again with a command line that may differ in
\* --approve.
Restart == \E approve \in ApproveValues : StartAgain(approve, previous)

\* The program is started again with the same command line.
RestartSame == StartAgain(args.ValueApprove, lines)

Next ==
    \/ Preflight
    \/ Tick
    \/ RunCreate
    \/ RunSetup
    \/ ExecStart
    \/ ChildWrite
    \/ ChildExit
    \/ CopyRead
    \/ CopyWrite
    \/ CmdWait
    \/ ExecEnsure
    \/ ExecCompare
    \/ RunTeardown
    \/ RunDrop
    \/ Report
    \/ Summary

\* One run of the program.
Spec == Init /\ [][Next]_vars

\* The program run MaxLifetimes times in a row.
NextRerun ==
    \/ Next
    \/ Restart

\* The processes run in a row are started without --no-rm, which the
\* program never reads.
InitRerun == Init /\ ~args.FlagDoNotRemove

SpecRerun == InitRerun /\ [][NextRerun]_vars

\* The program run MaxLifetimes times in a row with the same command line,
\* which has no --approve.
InitTwice == InitRerun /\ args.ValueApprove = <<>>

NextTwice ==
    \/ Next
    \/ RestartSame

SpecTwice == InitTwice /\ [][NextTwice]_vars

\* ------------------------------------------------------------ properties

\* The events of the current test case with operation op.
EventsOf(op) == { i \in 1..Len(events) : events[i].op = op }

\* Run was called for the current test case and CREATE DATABASE succeeded
\* (failed).
Created == events # <<>> /\ events[1].op = "create" /\ events[1].ok
CreateFailed == events # <<>> /\ events[1].op = "create" /\ ~events[1].ok

SetupFailed == \E i \in EventsOf("setup") : ~events[i].ok
TeardownFailed == \E i \in EventsOf("teardown") : ~events[i].ok
DropFailed == \E i \in EventsOf("drop") : ~events[i].ok
ClientExitedZero == \E i \in EventsOf("exit") : events[i].ok

\* Run has returned to the range loop, which has not yet printed its line.
Returned == pc = "report"

\* Run is over: it has returned, or a panic has unwound it.
RunOver == Returned \/ (pc = "exited" /\ panicking)

\* C1: a test case whose CREATE DATABASE succeeded has, when Run is over,
\* exactly one DROP DATABASE behind it, of the name it created; no test case
\* ever has more than one, nor one of another name.
C1_DropExactlyOnce ==
    /\ Cardinality(EventsOf("drop")) <= 1
    /\ \A i \in EventsOf("drop") : Created /\ events[i].db = events[1].db
    /\ (RunOver /\ Created) => Cardinality(EventsOf("drop")) = 1

C1_Witness ==
    /\ Returned
    /\ Created
    /\ runErr = "exec"
    /\ \E i \in EventsOf("drop") : events[i].db = events[1].db

\* C2: once a configured setup command has failed, the SQL client and the
\* teardown command are never run for the test case, Run is on its way out
\* through the drop, and when it has returned the result is a failure and
\* DROP DATABASE was issued for the created database.
C2_SetupFailure ==
    SetupFailed =>
        /\ args.ValueSetup
        /\ EventsOf("client") = {}
        /\ EventsOf("teardown") = {}
        /\ pc \in { "drop", "report" }
        /\ Returned =>
            /\ Verdict(runErr) = "FAIL"
            /\ \E i \in EventsOf("drop") : events[i].db = events[1].db

C2_Witness ==
    /\ Returned
    /\ SetupFailed
    /\ args.ValueTeardown
    /\ EventsOf("drop") # {}

\* C3: when CREATE DATABASE failed, Run returns a failure at once: nothing
\* else happens for the test case, no hook, no SQL client, no comparison or
\* approval, no DROP DATABASE, and no actual file is created.
C3_CreateFailure ==
    CreateFailed =>
        /\ Len(events) = 1
        /\ Returned
        /\ Verdict(runErr) = "FAIL"
        /\ ~actual.exists

C3_Witness ==
    /\ CreateFailed
    /\ Returned
    /\ args.ValueSetup
    /\ args.ValueTeardown

\* C4: the deferred drop leaves the result of Run as the body set it,
\* whether DROP DATABASE succeeds or fails.
C4_DropKeepsResult == [][pc = "drop" => runErr' = runErr]_vars

C4_Witness ==
    /\ Returned
    /\ DropFailed
    /\ runErr = None

\* The test cases main is to run: the discovered ones whose name matches
\* --run, in the order of discovery.
Selected == filter(LoadTestcases(DirIn), args.ValueRun)

\* C5: a process that got to its range loop ends only after Run was called
\* once for each selected test case, in order, and for no other; it has
\* printed one line for each; failed counts the FAIL lines; and the exit
\* status is non-zero exactly when failed is.
C5_RunCompletes ==
    (pc = "exited" /\ dirOut # "none") =>
        /\ Len(names) = Len(Selected)
        /\ \A i \in 1..Len(names) : names[i].name = Selected[i].Name
        /\ Len(lines) = Len(Selected)
        /\ \A i \in 1..Len(lines) : lines[i].name = Selected[i].Name
        /\ failed = Cardinality({ i \in 1..Len(lines) : lines[i].verdict = "FAIL" })
        /\ (exitStatus # 0) <=> (failed > 0)

\* C6: CREATE DATABASE never fails on a database an earlier drop left
\* behind: the server holds no database of the name when it fails.
C6_NoCascade == (Returned /\ CreateFailed) => events[1].db \notin dbs

\* C7: the database names generated in one lifetime are pairwise distinct.
C7_NamesDistinct ==
    \A i, j \in 1..Len(names) : i # j => names[i].db # names[j].db

\* C8, as claimed: whenever Run has returned, the expected file of its test
\* case exists.
C8_ExpectedExists == Returned => expectedDir[Current].exists

\* C8, amended: when Run is over for a test case whose SQL client exited
\* zero, and neither out.Sync nor ensureFileExists reported an error, the
\* expected file of the test case exists.
C8_ExpectedExistsAfterEnsure ==
    ( /\ RunOver
      /\ ClientExitedZero
      /\ runErr \notin { "sync actual file", "ensure expected file exists" } )
    => expectedDir[Current].exists

C8_Witness ==
    /\ Returned
    /\ runErr = "diff is not empty"
    /\ expectedDir[Current] = File(<<>>)

ApproveSucceeded == \E i \in EventsOf("approve") : events[i].ok

\* Run has returned for a test case whose name matches --approve and whose
\* SQL client exited zero.
ApproveCase ==
    /\ Returned
    /\ approved(args.ValueApprove, tester.testcase.Name)
    /\ ClientExitedZero

\* C9, as claimed, taken where no file operation failed (copyFile reported
\* no error): in the approve case no diff was computed, the expected file
\* holds exactly the actual output, and the verdict is PASS.
C9_ApproveAlwaysPasses ==
    (ApproveCase /\ ApproveSucceeded) =>
        /\ EventsOf("diff") = {}
        /\ expectedDir[Current] = File(actual.data)
        /\ Verdict(runErr) = "PASS"

\* C9, amended: in the approve case no diff was computed; when copyFile
\* reported no error the expected file holds what the actual file held when
\* it was copied (all of the actual file but what the stdout copier wrote
\* after that: at most its one pending chunk); and the verdict is PASS
\* exactly when copyFile reported no error and no teardown command failed.
C9_Approve ==
    ApproveCase =>
        /\ EventsOf("diff") = {}
        /\ ApproveSucceeded =>
            /\ expectedDir[Current].exists
            /\ IsPrefix(expectedDir[Current].data, actual.data)
            /\ Len(actual.data) <= Len(expectedDir[Current].data) + 1
        /\ (Verdict(runErr) = "PASS") <=> (ApproveSucceeded /\ ~TeardownFailed)

C9_Witness ==
    /\ ApproveCase
    /\ runErr = None
    /\ args.ValueTeardown
    /\ expectedDir[Current] = File(Output(MaxChunks))

\* C10: a test case approved in the previous lifetime and now run without
\* --approve, its SQL client exiting zero again and no hook, file operation
\* or diff command failing, passes.
C10_ApproveThenRun ==
    ( /\ Returned
      /\ lifetime > 1
      /\ Current \in approvedIn
      /\ args.ValueApprove = <<>>
      /\ ClientExitedZero
      /\ runErr \notin { "sync actual file", "ensure expected file exists",
                         "diff command failed", "run test" } )
    => Verdict(runErr) = "PASS"

\* ensureFileExists found no expected file for the current test case.
ExpectedWasAbsent == EventsOf("create expected") # {}

\* The name of the current test case does not match --approve.
NotApproved == ~approved(args.ValueApprove, tester.testcase.Name)

\* C11: when Run is over for a test case whose expected file was absent,
\* whose name does not match a well-formed --approve, and whose SQL client
\* exited zero after printing something (ensureFileExists and the diff
\* command working), no panic has happened, the expected file is there and
\* empty, and the result is the failure "diff is not empty".
C11_AbsentExpectedFails ==
    ( /\ RunOver
      /\ ExpectedWasAbsent
      /\ Compiles(args.ValueApprove)
      /\ NotApproved
      /\ ClientExitedZero
      /\ clientOut[Current].data # <<>>
      /\ runErr \notin { "ensure expected file exists", "diff command failed" } )
    => /\ ~panicking
       /\ expectedDir[Current] = File(<<>>)
       /\ runErr = "diff is not empty"

\* C12: no panic unwinds the process once Run has been called for a test
\* case, and a process that has called Run ends only after it has printed a
\* line for every selected test case, with the status of the summary.
C12_FatalOnlyPreflight ==
    /\ names # <<>> => ~panicking
    /\ (pc = "exited" /\ names # <<>>) =>
        /\ Len(lines) = Len(Selected)
        /\ exitStatus = ExitStatus(failed)

\* C13: when the process has ended after the range loop (every test case
\* passed, or some failed), the output directory is removed exactly when
\* --no-rm was not given.
C13_RemovedUnlessNoRm ==
    (pc = "exited" /\ dirOut # "none" /\ ~panicking) =>
        ((dirOut = "removed") <=> ~args.FlagDoNotRemove)

\* The comparison or the approval of the current test case has been made.
Compared == EventsOf("diff") \cup EventsOf("approve") # {}

\* C14: when Run has returned for a test case with a teardown command (the
\* diff command and copyFile working), the teardown command was run if the
\* SQL client exited zero and the comparison or approval was made, whatever
\* its outcome, and, when it was run, it came after that; it was not run if
\* the SQL client did not exit zero.
C14_TeardownAfterCompare ==
    ( /\ Returned
      /\ args.ValueTeardown
      /\ runErr \notin { "diff command failed", "copy actual to expected" } ) =>
        /\ (ClientExitedZero /\ Compared) => EventsOf("teardown") # {}
        /\ \A t \in EventsOf("teardown") :
            /\ ClientExitedZero
            /\ \E c \in EventsOf("diff") \cup EventsOf("approve") : c < t

\* C15: while the current test case's name does not match --approve (and
\* between test cases), a step changes no expected file but the current
\* test case's, and that one only from missing to empty.
C15_ExpectedFrame ==
    [][NotApproved =>
        \A f \in Filenames :
            \/ expectedDir'[f] = expectedDir[f]
            \/ /\ f = Current
               /\ ~expectedDir[f].exists
               /\ expectedDir'[f] = File(<<>>)]_vars

C15_Witness ==
    /\ Returned
    /\ args.ValueApprove = <<"a">>
    /\ NotApproved
    /\ ExpectedWasAbsent
    /\ expectedDir[Current] = File(<<>>)
    /\ \E f \in Filenames : f # Current /\ expectedDir[f] = File(Output(1))

\* Run is in progress for a test case: between its CREATE DATABASE and the
\* line main prints for it.
InRun == pc \in { "setup", "exec", "cmdrun", "sync", "compare", "teardown",
                  "drop", "report" }

\* C16: Run is called for one test case at a time: while it is in progress
\* every earlier test case has its line, between test cases (where the next
\* CREATE DATABASE is issued) and when the process has ended every test case
\* Run was called for has exactly one line, in the order of the calls, and
\* nothing of a test case is pending; a test case whose database was created
\* has its DROP DATABASE issued before its line is printed.
C16_OneAtATime ==
    /\ InRun => Len(lines) + 1 = Len(names)
    /\ ~InRun => Len(lines) = Len(names)
    /\ \A i \in 1..Len(lines) : lines[i].name = names[i].name
    /\ pc = "loop" => events = <<>>
    /\ (Returned /\ Created) => EventsOf("drop") # {}

\* C18: when cmd.Run has returned nil, the actual file holds all the SQL
\* client printed, and the copying goroutine has nothing left to read or to
\* write: out.Sync, the comparison and the approval see the whole output.
C18_CopyComplete ==
    pc \in { "sync", "compare" } =>
        /\ actual.data = clientOut[Current].data
        /\ pipe = <<>>
        /\ inflight = <<>>

\* The place of an operation in Run.
Rank(op) ==
    CASE op = "create" -> 1
      [] op = "setup" -> 2
      [] op = "client" -> 3
      [] op = "exit" -> 4
      [] op \in { "stat expected", "create expected" } -> 5
      [] op \in { "diff", "approve" } -> 6
      [] op = "teardown" -> 7
      [] op = "drop" -> 8

Hooks == EventsOf("setup") \cup EventsOf("teardown")

\* C19: the operations of a test case happen in the order create database,
\* setup command, SQL client (start, exit), expected file, comparison or
\* approval, teardown command, drop database, each at most once; a setup or
\* teardown command is given the database created for the current test
\* case, which exists when the command runs, and the current test case's
\* name and filename; it runs after the creation and before the drop.
C19_StageOrder ==
    /\ \A i, j \in 1..Len(events) :
        i < j => Rank(events[i].op) < Rank(events[j].op)
    /\ \A h \in Hooks :
        /\ Created
        /\ h > 1
        /\ events[h].db = events[1].db
        /\ events[h].db = dbname
        /\ h = Len(events) => events[h].db \in dbs
        /\ events[h].tc = testcases[idx]
        /\ events[h].tc = events[1].tc
        /\ \A d \in EventsOf("drop") : h < d

C19_Witness ==
    /\ Returned
    /\ \E i \in EventsOf("setup") : events[i].ok
    /\ EventsOf("diff") # {}
    /\ \E i \in EventsOf("teardown") : events[i].ok
    /\ \E i \in EventsOf("drop") : events[i].ok
    /\ tester.testcase.Name = <<"b">>

\* C20: when Run has returned for a test case whose approval succeeded and
\* whose teardown command then failed, the result is a failure and the
\* expected file holds what was copied from the actual file; the lines
\* printed FAIL for an approved test case leave its expected file
\* overwritten with (a prefix of) the client's output; and failed counts the
\* FAIL lines.
C20_ApprovalNotRolledBack ==
    /\ (Returned /\ ApproveSucceeded /\ TeardownFailed) =>
        /\ Verdict(runErr) = "FAIL"
        /\ expectedDir[Current].exists
        /\ IsPrefix(expectedDir[Current].data, actual.data)
    /\ \A i \in 1..Len(lines) :
        (lines[i].approved /\ lines[i].verdict = "FAIL") =>
            /\ args.ValueTeardown
            /\ expectedDir[lines[i].filename].exists
            /\ IsPrefix(expectedDir[lines[i].filename].data,
                        clientOut[lines[i].filename].data)
    /\ pc # "start" =>
        failed = Cardinality({ i \in 1..Len(lines) : lines[i].verdict = "FAIL" })

C20_Witness ==
    /\ pc = "exited"
    /\ failed = 1
    /\ \E i \in 1..Len(lines) :
        /\ lines[i].approved
        /\ lines[i].verdict = "FAIL"
        /\ expectedDir[lines[i].filename] = File(Output(MaxChunks))

\* The line is the outcome of a comparison: PASS, or FAIL with a diff text.
OfComparison(line) == line.verdict = "PASS" \/ line.diff # <<>>

\* C17: a test case that two processes in a row, with the same command line
\* and no --approve, both took to a comparison has the same verdict and the
\* same diff text in both.
C17_SameOutcomeTwice ==
    args.ValueApprove = <<>> =>
        \A i \in 1..Len(lines) : \A j \in 1..Len(previous) :
            ( /\ lines[i].filename = previous[j].filename
              /\ OfComparison(lines[i])
              /\ OfComparison(previous[j]) )
            => /\ lines[i].verdict = previous[j].verdict
               /\ lines[i].diff = previous[j].diff

====
